---- MODULE Spec2Model ----
(***************************************************************************)
(* appbase: the plugin registry, the plugin lifecycle (plugin<Impl>), the  *)
(* dependency traversal generated by APPBASE_PLUGIN_REQUIRES, and the      *)
(* type-keyed method / channel registries of appbase::application.         *)
(*                                                                         *)
(* The program is single threaded.  A running call is a stack of frames;   *)
(* every step of the model executes the next statement of the topmost      *)
(* frame, so the states between two statements of a handler (for example   *)
(* what a dependency's hook observes) are states of the model.             *)
(***************************************************************************)
EXTENDS Integers, Sequences, FiniteSets, TLC

\* ------------------------------------------------------------- bounds
\* Number of plugin types of the program.
NumPlugins == 3

\* Number of method / channel declaration types of the program.
NumDecls == 2

\* Longest list of plugins handed to initialize_impl (autostart_plugins).
MaxAutostart == 1

Plugin == 1 .. NumPlugins

Decl == 1 .. NumDecls

\* ------------------------------------------------------------- plugin.hpp
\* abstract_plugin::state, in declaration order.
registered == "registered"

initialized == "initialized"

started == "started"

stopped == "stopped"

state_enum == <<registered, initialized, started, stopped>>

\* The enumerator's integer value.
state_value(s) == CHOOSE k \in 1 .. Len(state_enum) : state_enum[k] = s

\* The dependency declarations a program can make with APPBASE_PLUGIN_REQUIRES:
\* the sequence PLUGINS of each plugin type, visited left to right.
\*   chain : p requires p+1, but for the last plugin, which nothing
\*           requires and which requires nothing  (1 -> 2, and 3)
\*   full  : p requires every later one  (1 -> 2, 1 -> 3, 2 -> 3)
\*   pair  : 1 and 2 require each other, 3 requires nothing, and each
\*           later plugin requires the one before it
UpFrom(p) == [k \in 1 .. (NumPlugins - p) |-> p + k]

Declarations(g) ==
  [p \in Plugin |->
     CASE g = "chain" -> IF p + 1 < NumPlugins THEN <<p + 1>> ELSE <<>>
       [] g = "full"  -> UpFrom(p)
       [] g = "pair"  -> IF p = 1 THEN <<2>> ELSE IF p = 2 THEN <<1>>
                         ELSE IF p = 3 THEN <<>> ELSE <<p - 1>>]

Graphs == {"chain", "full", "pair"}

\* ------------------------------------------------------------- state
VARIABLES
  plugin_requires,      \* per plugin type: the PLUGINS of its APPBASE_PLUGIN_REQUIRES
  NDEBUG,               \* the build: TRUE when assert() is compiled out
  plugins,              \* application::plugins: name -> the instance it owns
  constructed,          \* per plugin type: how many times `new Plugin()` ran
  state,                \* plugin::_state of the instance plugins[name]
  initialized_plugins,  \* application::initialized_plugins
  running_plugins,      \* application::running_plugins
  methods,              \* application::methods: key -> the object it owns
  channels,             \* application::channels
  made,                 \* per registry and declaration: how many objects were made
  hooks,                \* per hook (plugin_initialize, ...): the plugins it ran for
  stack,                \* the frames of the running call, innermost last
  call,                 \* the outermost call: the running one, or the last that ran
  pre,                  \* the program state when `call` was made
  ret,                  \* what the last returned lookup / register call returned
  aborted               \* a failed assert() ended the process

vars == <<plugin_requires, NDEBUG, plugins, constructed, state,
          initialized_plugins, running_plugins, methods, channels, made,
          hooks, stack, call, pre, ret, aborted>>

\* A pointer / reference: the type it is keyed by and which of the objects
\* constructed for that type it is.  null is the null pointer.
Ref(k, n) == [key |-> k, id |-> n]

null == Ref(0, 0)

NoCall == [op |-> "none", plug |-> 0, list |-> <<>>, decl |-> 0]

EmptyMap == [x \in {} |-> 0]

\* The program state a call can change, as recorded in `pre`.
Snapshot ==
  [plugins |-> plugins, constructed |-> constructed, state |-> state,
   initialized_plugins |-> initialized_plugins,
   running_plugins |-> running_plugins, hooks |-> hooks,
   methods |-> methods, channels |-> channels]

NoHooks ==
  [h \in {"plugin_initialize", "plugin_startup", "plugin_shutdown"} |-> <<>>]

\* What `pre` holds while no call is being looked at.
NoSnapshot ==
  [plugins |-> EmptyMap, constructed |-> [p \in Plugin |-> 0],
   state |-> EmptyMap, initialized_plugins |-> <<>>,
   running_plugins |-> <<>>, hooks |-> NoHooks,
   methods |-> EmptyMap, channels |-> EmptyMap]

\* The program before its first call: nothing is registered.
InitProgram ==
  /\ plugin_requires \in {Declarations(g) : g \in Graphs}
  /\ NDEBUG \in BOOLEAN
  /\ plugins = EmptyMap
  /\ constructed = [p \in Plugin |-> 0]
  /\ state = EmptyMap
  /\ initialized_plugins = <<>>
  /\ running_plugins = <<>>
  /\ methods = EmptyMap
  /\ channels = EmptyMap
  /\ made = [r \in {"methods", "channels"} |-> [d \in Decl |-> 0]]
  /\ hooks = NoHooks
  /\ call = NoCall
  /\ pre = NoSnapshot
  /\ ret = null
  /\ aborted = FALSE

\* ------------------------------------------------------------- frames
Frame(op, plug, pc, i, list) ==
  [op |-> op, plug |-> plug, pc |-> pc, i |-> i, list |-> list]

Top == stack[Len(stack)]

Running == stack # <<>> /\ ~aborted

\* No call is running.
Idle == stack = <<>> /\ ~aborted

\* The outermost call has returned and its caller has not gone on yet.
Returned == Idle /\ call # NoCall

\* The topmost frame goes on as `f`.
Goto(f) == [stack EXCEPT ![Len(stack)] = f]

\* The topmost frame calls `callee` and goes on as `f` when it returns.
Invoke(f, callee) == Append(Goto(f), callee)

\* The topmost frame returns.
Return == SubSeq(stack, 1, Len(stack) - 1)

\* An outermost call begins: the caller's frame is not modelled, only what
\* it called, with which arguments, and the program state it found.
Begin(c, f) ==
  /\ Idle /\ call = NoCall
  /\ stack' = <<f>>
  /\ call' = c
  /\ pre' = Snapshot
  /\ ret' = null

\* The caller goes on after the call it made: what the call was, what it
\* found and what it returned are no longer looked at.
caller_resumes ==
  /\ Returned
  /\ call' = NoCall
  /\ pre' = NoSnapshot
  /\ ret' = null
  /\ UNCHANGED <<plugin_requires, NDEBUG, plugins, constructed, state,
                 initialized_plugins, running_plugins, methods, channels,
                 made, hooks, stack, aborted>>

\* ------------------------------------------------------------- registry
\* application::find_plugin(name): the instance registered under the name,
\* or the null pointer.
find_plugin_by_name(reg, name) ==
  IF name \in DOMAIN reg THEN Ref(name, reg[name]) ELSE null

\* A find_plugin<Plugin>() that finds nothing, whatever is registered.
find_plugin_never(reg, p) == null

\* application::find_plugin<Plugin>(): looks the plugin up under the name
\* demangled from its type (one name per type: a plugin type stands for its
\* name) and casts the result down.
find_plugin(reg, p) == find_plugin_by_name(reg, p)

\* plugins[plug->name()].reset(plug): the map owns the new instance under
\* the name, in place of whatever it owned there.
reset(m, k, v) == [x \in DOMAIN m \cup {k} |-> IF x = k THEN v ELSE m[x]]

\* A find_plugin<Plugin>() that registers the plugin it does not find, as
\* register_plugin does.
find_plugin_call_registering(p) ==
  /\ Idle /\ call = NoCall
  /\ call' = [NoCall EXCEPT !.op = "find_plugin", !.plug = p]
  /\ pre' = Snapshot
  /\ IF p \in DOMAIN plugins
     THEN UNCHANGED <<plugins, constructed, state>>
     ELSE /\ constructed' = [constructed EXCEPT ![p] = @ + 1]
          /\ plugins' = reset(plugins, p, constructed[p] + 1)
          /\ state' = reset(state, p, registered)
  /\ ret' = Ref(p, plugins'[p])
  /\ UNCHANGED <<plugin_requires, NDEBUG, initialized_plugins,
                 running_plugins, methods, channels, made, hooks, stack,
                 aborted>>

\* A caller asks find_plugin<Plugin>().
find_plugin_call(p) ==
  /\ Idle /\ call = NoCall
  /\ call' = [NoCall EXCEPT !.op = "find_plugin", !.plug = p]
  /\ pre' = Snapshot
  /\ ret' = find_plugin(plugins, p)
  /\ UNCHANGED <<plugin_requires, NDEBUG, plugins, constructed, state,
                 initialized_plugins, running_plugins, methods, channels,
                 made, hooks, stack, aborted>>

\* A caller asks register_plugin<Plugin>().
register_plugin_call(p) ==
  /\ Begin([NoCall EXCEPT !.op = "register_plugin", !.plug = p],
           Frame("register_plugin", p, "find", 0, <<>>))
  /\ UNCHANGED <<plugin_requires, NDEBUG, plugins, constructed, state,
                 initialized_plugins, running_plugins, methods, channels,
                 made, hooks, aborted>>

\* What the outermost call returns is kept in `ret`; what an inner call
\* returns is used by its caller at once.
returned(r) == IF Len(stack) = 1 THEN r ELSE ret

\* register_plugin, up to the call of register_dependencies: an existing
\* instance is returned as it is; otherwise a new Plugin (whose _state
\* starts as registered) is constructed and put in the map.
register_plugin_find ==
  /\ Running /\ Top.op = "register_plugin" /\ Top.pc = "find"
  /\ LET p == Top.plug
         existing == find_plugin(plugins, p)
     IN IF existing # null
        THEN /\ stack' = Return
             /\ ret' = returned(existing)
             /\ UNCHANGED <<plugins, constructed, state>>
        ELSE /\ constructed' = [constructed EXCEPT ![p] = @ + 1]
             /\ plugins' = reset(plugins, p, constructed[p] + 1)
             /\ state' = reset(state, p, registered)
             /\ stack' = Goto([Top EXCEPT !.pc = "requires", !.i = 1])
             /\ UNCHANGED ret
  /\ UNCHANGED <<plugin_requires, NDEBUG, initialized_plugins,
                 running_plugins, methods, channels, made, hooks, call, pre,
                 aborted>>

\* register_plugin returns *plug after register_dependencies.
register_plugin_return ==
  /\ Running /\ Top.op = "register_plugin" /\ Top.pc = "return"
  /\ stack' = Return
  /\ ret' = returned(Ref(Top.plug, plugins[Top.plug]))
  /\ UNCHANGED <<plugin_requires, NDEBUG, plugins, constructed, state,
                 initialized_plugins, running_plugins, methods, channels,
                 made, hooks, call, pre, aborted>>

\* ------------------------------------------------------------- traversal
\* Where a frame goes on once plugin_requires has visited every dependency.
after_requires(op) ==
  CASE op = "register_plugin" -> "return"
    [] op = "initialize" -> "plugin_initialize"
    [] op = "startup" -> "plugin_startup"

\* The visitor `l` applied to the dependency `dep`, after which the frame
\* goes on with the next dependency: the empty lambda of
\* register_dependencies, plug.initialize(options), or plug.startup().
visit(dep) ==
  LET next == [Top EXCEPT !.pc = "requires", !.i = @ + 1]
  IN IF Top.op = "register_plugin"
     THEN Goto(next)
     ELSE Invoke(next, Frame(Top.op, dep, "enter", 0, <<>>))

\* A plugin_requires that visits no dependency at all.
plugin_requires_of_nothing ==
  /\ Running /\ Top.pc = "requires"
  /\ stack' = Goto([Top EXCEPT !.pc = after_requires(Top.op)])
  /\ UNCHANGED <<plugin_requires, NDEBUG, plugins, constructed, state,
                 initialized_plugins, running_plugins, methods, channels,
                 made, hooks, call, pre, ret, aborted>>

\* plugin_requires(l): BOOST_PP_SEQ_FOR_EACH over PLUGINS.  Each element is
\* handed to app().register_plugin<elem>(), and the visitor is applied to
\* what that returns.  register_plugin returns an existing instance
\* without changing anything, and the visitor follows in the same step;
\* a missing one is registered by a call of its own first.
plugin_requires_each ==
  /\ Running /\ Top.pc = "requires"
  /\ LET deps == plugin_requires[Top.plug]
     IN IF Top.i > Len(deps)
        THEN stack' = Goto([Top EXCEPT !.pc = after_requires(Top.op)])
        ELSE IF find_plugin(plugins, deps[Top.i]) # null
        THEN stack' = visit(deps[Top.i])
        ELSE stack' = Invoke([Top EXCEPT !.pc = "visitor"],
                             Frame("register_plugin", deps[Top.i], "find", 0, <<>>))
  /\ UNCHANGED <<plugin_requires, NDEBUG, plugins, constructed, state,
                 initialized_plugins, running_plugins, methods, channels,
                 made, hooks, call, pre, ret, aborted>>

\* The visitor applied to a dependency that register_plugin has just
\* constructed.
visitor ==
  /\ Running /\ Top.pc = "visitor"
  /\ stack' = visit(plugin_requires[Top.plug][Top.i])
  /\ UNCHANGED <<plugin_requires, NDEBUG, plugins, constructed, state,
                 initialized_plugins, running_plugins, methods, channels,
                 made, hooks, call, pre, ret, aborted>>

\* ------------------------------------------------------------- lifecycle
\* An initialize that fires again from initialized.
initialize_fires_again(s) == s \in {registered, initialized}

\* if(_state == registered) of plugin::initialize.
initialize_fires(s) == s = registered

\* A startup that tests for the state before the one it starts from.
startup_fires_from_registered(s) == s = registered

\* A startup that fires from registered as well, without initialize.
startup_fires_uninitialized(s) == s \in {registered, initialized}

\* if(_state == initialized) of plugin::startup.
startup_fires(s) == s = initialized

\* A shutdown that tests for the state it is about to enter.
shutdown_fires_from_stopped(s) == s = stopped

\* A shutdown that fires from every state but stopped.
shutdown_fires_unless_stopped(s) == s # stopped

\* if(_state == started) of plugin::shutdown.
shutdown_fires(s) == s = started

\* Notifications that put the plugin at the front of the vector.
plugin_initialized_front(v, plug) == <<plug>> \o v

plugin_started_front(v, plug) == <<plug>> \o v

\* A notification that forgets the plugins started before.
plugin_started_alone(v, plug) == <<plug>>

\* application::plugin_initialized and plugin_started: push_back.
plugin_initialized(v, plug) == Append(v, plug)

plugin_started(v, plug) == Append(v, plug)

\* The plugin's own hook (plugin_initialize, plugin_startup or
\* plugin_shutdown) runs for `plug`.
ran(h, plug) == [hooks EXCEPT ![h] = Append(@, plug)]

\* A caller holding the plugin calls initialize / startup / shutdown on it.
lifecycle_call(op, p) ==
  /\ p \in DOMAIN plugins
  /\ Begin([NoCall EXCEPT !.op = op, !.plug = p], Frame(op, p, "enter", 0, <<>>))
  /\ UNCHANGED <<plugin_requires, NDEBUG, plugins, constructed, state,
                 initialized_plugins, running_plugins, methods, channels,
                 made, hooks, aborted>>

initialize_call(p) == lifecycle_call("initialize", p)

startup_call(p) == lifecycle_call("startup", p)

shutdown_call(p) == lifecycle_call("shutdown", p)

\* assert(_state == initialized) / assert(_state == started), the last
\* statement of initialize / startup: a failed assert aborts the process,
\* unless the build compiled it out (NDEBUG); otherwise the call returns.
asserted(op) == IF op = "initialize" THEN initialized ELSE started

\* An assert that no state fails.
assert_never_fails(op, s) == TRUE

assert_passes(op, s) == s = asserted(op) \/ NDEBUG

assert_and_return(op, s) ==
  IF assert_passes(op, s)
  THEN stack' = Return /\ UNCHANGED aborted
  ELSE aborted' = TRUE /\ UNCHANGED stack

\* plugin::initialize: the test of _state and, from registered, the
\* assignment _state = initialized that precedes everything else.  From
\* any other state nothing is left to do but the closing assert.
initialize_enter ==
  /\ Running /\ Top.op = "initialize" /\ Top.pc = "enter"
  /\ IF initialize_fires(state[Top.plug])
     THEN /\ state' = [state EXCEPT ![Top.plug] = initialized]
          /\ stack' = Goto([Top EXCEPT !.pc = "requires", !.i = 1])
          /\ UNCHANGED aborted
     ELSE /\ assert_and_return("initialize", state[Top.plug])
          /\ UNCHANGED state
  /\ UNCHANGED <<plugin_requires, NDEBUG, plugins, constructed,
                 initialized_plugins, running_plugins, methods, channels,
                 made, hooks, call, pre, ret>>

\* static_cast<Impl*>(this)->plugin_initialize(options).
initialize_hook ==
  /\ Running /\ Top.op = "initialize" /\ Top.pc = "plugin_initialize"
  /\ hooks' = ran("plugin_initialize", Top.plug)
  /\ stack' = Goto([Top EXCEPT !.pc = "notify"])
  /\ UNCHANGED <<plugin_requires, NDEBUG, plugins, constructed, state,
                 initialized_plugins, running_plugins, methods, channels,
                 made, call, pre, ret, aborted>>

\* app().plugin_initialized(*this), and the closing assert.
initialize_notify ==
  /\ Running /\ Top.op = "initialize" /\ Top.pc = "notify"
  /\ initialized_plugins' = plugin_initialized(initialized_plugins, Top.plug)
  /\ assert_and_return("initialize", state[Top.plug])
  /\ UNCHANGED <<plugin_requires, NDEBUG, plugins, constructed, state,
                 running_plugins, methods, channels, made, hooks, call, pre,
                 ret>>

\* plugin::startup: the test of _state and the assignment _state = started.
startup_enter ==
  /\ Running /\ Top.op = "startup" /\ Top.pc = "enter"
  /\ IF startup_fires(state[Top.plug])
     THEN /\ state' = [state EXCEPT ![Top.plug] = started]
          /\ stack' = Goto([Top EXCEPT !.pc = "requires", !.i = 1])
          /\ UNCHANGED aborted
     ELSE /\ assert_and_return("startup", state[Top.plug])
          /\ UNCHANGED state
  /\ UNCHANGED <<plugin_requires, NDEBUG, plugins, constructed,
                 initialized_plugins, running_plugins, methods, channels,
                 made, hooks, call, pre, ret>>

\* static_cast<Impl*>(this)->plugin_startup().
startup_hook ==
  /\ Running /\ Top.op = "startup" /\ Top.pc = "plugin_startup"
  /\ hooks' = ran("plugin_startup", Top.plug)
  /\ stack' = Goto([Top EXCEPT !.pc = "notify"])
  /\ UNCHANGED <<plugin_requires, NDEBUG, plugins, constructed, state,
                 initialized_plugins, running_plugins, methods, channels,
                 made, call, pre, ret, aborted>>

\* app().plugin_started(*this), and the closing assert.
startup_notify ==
  /\ Running /\ Top.op = "startup" /\ Top.pc = "notify"
  /\ running_plugins' = plugin_started(running_plugins, Top.plug)
  /\ assert_and_return("startup", state[Top.plug])
  /\ UNCHANGED <<plugin_requires, NDEBUG, plugins, constructed, state,
                 initialized_plugins, methods, channels, made, hooks, call,
                 pre, ret>>

\* plugin::shutdown: from started, _state = stopped; from any other state
\* the call returns at once.
shutdown_enter ==
  /\ Running /\ Top.op = "shutdown" /\ Top.pc = "enter"
  /\ IF shutdown_fires(state[Top.plug])
     THEN /\ state' = [state EXCEPT ![Top.plug] = stopped]
          /\ stack' = Goto([Top EXCEPT !.pc = "plugin_shutdown"])
     ELSE /\ stack' = Return
          /\ UNCHANGED state
  /\ UNCHANGED <<plugin_requires, NDEBUG, plugins, constructed,
                 initialized_plugins, running_plugins, methods, channels,
                 made, hooks, call, pre, ret, aborted>>

\* A shutdown that, with its own hook, stops the started dependencies of
\* the plugin as well.
shutdown_hook_with_dependencies ==
  /\ Running /\ Top.op = "shutdown" /\ Top.pc = "plugin_shutdown"
  /\ hooks' = ran("plugin_shutdown", Top.plug)
  /\ state' = [q \in DOMAIN state |->
                 IF /\ \E k \in DOMAIN plugin_requires[Top.plug] :
                         plugin_requires[Top.plug][k] = q
                    /\ state[q] = started
                 THEN stopped ELSE state[q]]
  /\ stack' = Return
  /\ UNCHANGED <<plugin_requires, NDEBUG, plugins, constructed,
                 initialized_plugins, running_plugins, methods, channels,
                 made, call, pre, ret, aborted>>

\* static_cast<Impl*>(this)->plugin_shutdown(), and the return.
shutdown_hook ==
  /\ Running /\ Top.op = "shutdown" /\ Top.pc = "plugin_shutdown"
  /\ hooks' = ran("plugin_shutdown", Top.plug)
  /\ stack' = Return
  /\ UNCHANGED <<plugin_requires, NDEBUG, plugins, constructed, state,
                 initialized_plugins, running_plugins, methods, channels,
                 made, call, pre, ret, aborted>>

\* ------------------------------------------------------------- orchestrator
\* The lists of plugins a caller can hand to application::initialize: up to
\* MaxAutostart plugins it has registered, no plugin twice.
Autostart ==
  {l \in UNION {[1 .. n -> DOMAIN plugins] : n \in 0 .. MaxAutostart} :
     \A i, j \in 1 .. Len(l) : i # j => l[i] # l[j]}

\* application::initialize (initialize_impl): initialize is called on each
\* plugin of the list, in the order of the list.
application_initialize_call(l) ==
  /\ Begin([NoCall EXCEPT !.op = "application::initialize", !.list = l],
           Frame("application::initialize", 0, "each", 1, l))
  /\ UNCHANGED <<plugin_requires, NDEBUG, plugins, constructed, state,
                 initialized_plugins, running_plugins, methods, channels,
                 made, hooks, aborted>>

application_initialize_each ==
  /\ Running /\ Top.op = "application::initialize"
  /\ IF Top.i <= Len(Top.list)
     THEN stack' = Invoke([Top EXCEPT !.i = @ + 1],
                          Frame("initialize", Top.list[Top.i], "enter", 0, <<>>))
     ELSE stack' = Return
  /\ UNCHANGED <<plugin_requires, NDEBUG, plugins, constructed, state,
                 initialized_plugins, running_plugins, methods, channels,
                 made, hooks, call, pre, ret, aborted>>

\* application::startup: startup is called on every plugin of
\* initialized_plugins, front to back.
application_startup_call ==
  /\ Begin([NoCall EXCEPT !.op = "application::startup"],
           Frame("application::startup", 0, "each", 1, <<>>))
  /\ UNCHANGED <<plugin_requires, NDEBUG, plugins, constructed, state,
                 initialized_plugins, running_plugins, methods, channels,
                 made, hooks, aborted>>

application_startup_each ==
  /\ Running /\ Top.op = "application::startup"
  /\ IF Top.i <= Len(initialized_plugins)
     THEN stack' = Invoke([Top EXCEPT !.i = @ + 1],
                          Frame("startup", initialized_plugins[Top.i], "enter", 0, <<>>))
     ELSE stack' = Return
  /\ UNCHANGED <<plugin_requires, NDEBUG, plugins, constructed, state,
                 initialized_plugins, running_plugins, methods, channels,
                 made, hooks, call, pre, ret, aborted>>

\* application::shutdown: shutdown is called on every plugin of
\* running_plugins, back to front.
application_shutdown_call ==
  /\ Begin([NoCall EXCEPT !.op = "application::shutdown"],
           Frame("application::shutdown", 0, "each", Len(running_plugins), <<>>))
  /\ UNCHANGED <<plugin_requires, NDEBUG, plugins, constructed, state,
                 initialized_plugins, running_plugins, methods, channels,
                 made, hooks, aborted>>

application_shutdown_each ==
  /\ Running /\ Top.op = "application::shutdown"
  /\ IF Top.i >= 1
     THEN stack' = Invoke([Top EXCEPT !.i = @ - 1],
                          Frame("shutdown", running_plugins[Top.i], "enter", 0, <<>>))
     ELSE stack' = Return
  /\ UNCHANGED <<plugin_requires, NDEBUG, plugins, constructed, state,
                 initialized_plugins, running_plugins, methods, channels,
                 made, hooks, call, pre, ret, aborted>>

\* ------------------------------------------------------------- methods, channels
\* The payload type of a declaration: declarations 1 and 2 declare the same
\* payload type, 3 and 4 the same, and so on.
payload(d) == (d + 1) \div 2

\* A key taken from the payload type rather than the declaration type.
type_index_of_payload(d) == payload(d)

\* std::type_index(typeid(MethodDecl)): one key per declaration type.
type_index(d) == d

\* get_method / get_channel on the registry `reg`: the object found under
\* the declaration's key, or else a newly made one, emplaced under the key.
\* Yields the registry afterwards and the object returned.
get_or_make(reg, count, d) ==
  LET key == type_index(d)
  IN IF key \in DOMAIN reg
     THEN [reg |-> reg, count |-> count, ret |-> reg[key]]
     ELSE [reg |-> reg @@ (key :> Ref(d, count[d] + 1)),
           count |-> [count EXCEPT ![d] = @ + 1],
           ret |-> Ref(d, count[d] + 1)]

get_method(d) ==
  /\ Idle
  /\ LET got == get_or_make(methods, made["methods"], d)
     IN /\ methods' = got.reg
        /\ made' = [made EXCEPT !["methods"] = got.count]
        /\ ret' = got.ret
  /\ call' = [NoCall EXCEPT !.op = "get_method", !.decl = d]
  /\ pre' = Snapshot
  /\ UNCHANGED <<plugin_requires, NDEBUG, plugins, constructed, state,
                 initialized_plugins, running_plugins, channels, hooks,
                 stack, aborted>>

get_channel(d) ==
  /\ Idle
  /\ LET got == get_or_make(channels, made["channels"], d)
     IN /\ channels' = got.reg
        /\ made' = [made EXCEPT !["channels"] = got.count]
        /\ ret' = got.ret
  /\ call' = [NoCall EXCEPT !.op = "get_channel", !.decl = d]
  /\ pre' = Snapshot
  /\ UNCHANGED <<plugin_requires, NDEBUG, plugins, constructed, state,
                 initialized_plugins, running_plugins, methods, hooks,
                 stack, aborted>>

\* ------------------------------------------------------------- specifications
\* The next statement of the running call.
Step ==
  \/ register_plugin_find
  \/ register_plugin_return
  \/ plugin_requires_each
  \/ visitor
  \/ initialize_enter
  \/ initialize_hook
  \/ initialize_notify
  \/ startup_enter
  \/ startup_hook
  \/ startup_notify
  \/ shutdown_enter
  \/ shutdown_hook
  \/ application_initialize_each
  \/ application_startup_each
  \/ application_shutdown_each

\* Any caller of the plugin interface: between two calls, any operation on
\* the plugins may be called next, on any plugin, in any order.
Init == InitProgram /\ stack = <<>>

Next ==
  \/ \E p \in Plugin : register_plugin_call(p)
  \/ \E p \in Plugin : find_plugin_call(p)
  \/ \E p \in Plugin : initialize_call(p)
  \/ \E p \in Plugin : startup_call(p)
  \/ \E p \in Plugin : shutdown_call(p)
  \/ \E l \in Autostart : application_initialize_call(l)
  \/ application_startup_call
  \/ application_shutdown_call
  \/ caller_resumes
  \/ Step

Spec == Init /\ [][Next]_vars

\* The application's own run, main(): it registers plugins, has the
\* orchestrator initialize a list of them, start what was initialized and
\* shut down what was started; nobody else drives a plugin.  main is the
\* outermost frame; its pc names what it has done last.
Main(pc, l) == Frame("main", 0, pc, 0, l)

InitRun == InitProgram /\ stack = <<Main("entered", <<>>)>>

\* main is the running frame, having last done `pc`.
MainAt(pc) == ~aborted /\ Len(stack) = 1 /\ Top.op = "main" /\ Top.pc = pc

main_register(p) ==
  /\ MainAt("entered") \/ MainAt("registered")
  /\ stack' = Invoke(Main("registered", <<>>),
                     Frame("register_plugin", p, "find", 0, <<>>))
  /\ UNCHANGED <<plugin_requires, NDEBUG, plugins, constructed, state,
                 initialized_plugins, running_plugins, methods, channels,
                 made, hooks, call, pre, ret, aborted>>

main_initialize(l) ==
  /\ MainAt("registered")
  /\ stack' = Invoke(Main("initialized", l),
                     Frame("application::initialize", 0, "each", 1, l))
  /\ UNCHANGED <<plugin_requires, NDEBUG, plugins, constructed, state,
                 initialized_plugins, running_plugins, methods, channels,
                 made, hooks, call, pre, ret, aborted>>

main_startup ==
  /\ MainAt("initialized")
  /\ stack' = Invoke(Main("started", Top.list),
                     Frame("application::startup", 0, "each", 1, <<>>))
  /\ UNCHANGED <<plugin_requires, NDEBUG, plugins, constructed, state,
                 initialized_plugins, running_plugins, methods, channels,
                 made, hooks, call, pre, ret, aborted>>

main_shutdown ==
  /\ MainAt("started")
  /\ stack' = Invoke(Main("stopped", Top.list),
                     Frame("application::shutdown", 0, "each",
                           Len(running_plugins), <<>>))
  /\ UNCHANGED <<plugin_requires, NDEBUG, plugins, constructed, state,
                 initialized_plugins, running_plugins, methods, channels,
                 made, hooks, call, pre, ret, aborted>>

NextRun ==
  \/ \E p \in Plugin : main_register(p)
  \/ \E l \in Autostart : main_initialize(l)
  \/ main_startup
  \/ main_shutdown
  \/ Step

SpecRun == InitRun /\ [][NextRun]_vars

\* The callers of the method and channel registries, which share no state
\* with the plugins.
NextRegistry ==
  \/ \E d \in Decl : get_method(d)
  \/ \E d \in Decl : get_channel(d)

SpecRegistry == Init /\ [][NextRegistry]_vars

\* A program whose plugins 1 and 2 declare each other as dependencies, under
\* any caller.  The program is single threaded and a running call always
\* executes its next statement: a step that stays possible is taken.
InitCycle == Init /\ plugin_requires = Declarations("pair")

SpecCycle == InitCycle /\ [][Next]_vars /\ WF_vars(Step)

\* ------------------------------------------------------------- properties
\* The plugins `p` declares as dependencies.
Deps(p) == {plugin_requires[p][k] : k \in 1 .. Len(plugin_requires[p])}

\* What is reached from the plugins of S along at most n declarations.
RECURSIVE Closure(_, _)
Closure(S, n) ==
  IF n = 0 THEN S ELSE Closure(S \cup UNION {Deps(q) : q \in S}, n - 1)

\* b depends on a, directly or through other plugins.
DependsOn(b, a) == a \in Closure(Deps(b), NumPlugins)

\* Where x stands in the sequence v (0: nowhere).
IndexOf(v, x) ==
  IF \E k \in 1 .. Len(v) : v[k] = x
  THEN CHOOSE k \in 1 .. Len(v) : v[k] = x /\ \A j \in 1 .. (k - 1) : v[j] # x
  ELSE 0

\* x stands in v, and before every y of v.
Before(v, x, y) ==
  /\ IndexOf(v, x) > 0
  /\ IndexOf(v, y) > 0
  /\ IndexOf(v, x) < IndexOf(v, y)

Range(v) == {v[k] : k \in 1 .. Len(v)}

Reverse(v) == [k \in 1 .. Len(v) |-> v[Len(v) + 1 - k]]

AtLeast(s, t) == state_value(s) >= state_value(t)

\* C1: for plugins A, B where A declares B as a dependency: once
\* initialize_all({A}) has returned, B is in state initialized and B stands
\* in initialized_plugins strictly before A.
C1_InitializeAllOrdersDependencies ==
  \A A \in Plugin :
    MainAt("initialized") /\ Top.list = <<A>> =>
      \A B \in Deps(A) :
        /\ state[B] = initialized
        /\ Before(initialized_plugins, B, A)

\* initialize_all({A}) has returned for a plugin A with two dependencies,
\* one of which depends on the other.
C1_Witness ==
  /\ MainAt("initialized")
  /\ Top.list = <<1>>
  /\ plugin_requires[1] = <<2, 3>>
  /\ plugin_requires[2] = <<3>>
  /\ initialized_plugins = <<3, 2, 1>>

C3_ShutdownAllReversesStartOrder ==
  MainAt("stopped") => hooks["plugin_shutdown"] = Reverse(running_plugins)

\* shutdown_all() has returned after three plugins were started.
C3_Witness ==
  /\ MainAt("stopped")
  /\ running_plugins = <<3, 2, 1>>
  /\ hooks["plugin_shutdown"] = <<1, 2, 3>>

C5_AsClaimed ==
  \A p \in DOMAIN state :
    \A b \in Deps(p) :
      /\ AtLeast(state[p], initialized) =>
           b \in DOMAIN state /\ AtLeast(state[b], initialized)
      /\ AtLeast(state[p], started) =>
           b \in DOMAIN state /\ AtLeast(state[b], started)

\* C6: under any sequence of initialize, startup and shutdown calls on any
\* plugins, the state of a plugin changes only by one step along
\* registered -> initialized -> started -> stopped: never backward, never
\* over a state, and never out of stopped.
C6_StateStepsForwardOnly ==
  [][\A p \in DOMAIN state :
       /\ p \in DOMAIN state'
       /\ \/ state'[p] = state[p]
          \/ state_value(state'[p]) = state_value(state[p]) + 1]_vars

\* All of a lifecycle has been walked: one plugin is stopped while another
\* is started and a third only registered.
C6_Witness ==
  \E p, q, r \in DOMAIN state :
    state[p] = stopped /\ state[q] = started /\ state[r] = registered

\* C7: registering a plugin type that is registered already returns the
\* identical instance: the call constructs nothing, leaves the set of
\* registered plugins as it was, and leaves the state of that plugin and of
\* every other plugin as it was, whatever state the plugin had reached.
C7_RegisterTwiceSameInstance ==
  call.op = "register_plugin" /\ call.plug \in DOMAIN pre.plugins =>
    /\ constructed = pre.constructed
    /\ plugins = pre.plugins
    /\ state = pre.state
    /\ Returned => ret = Ref(call.plug, pre.plugins[call.plug])

\* A plugin that had been started and shut down was registered again, and
\* the call has returned.
C7_Witness ==
  /\ Returned
  /\ call.op = "register_plugin"
  /\ call.plug \in DOMAIN pre.plugins
  /\ pre.state[call.plug] = stopped
  /\ ret # null

\* C8: initialize called on a plugin that is already initialized has no
\* effect: its own plugin_initialize does not run again, no hook of a
\* dependency runs, nothing is appended to initialized_plugins, and the
\* state stays initialized.
C8_InitializeTwiceNoEffect ==
  /\ call.op = "initialize"
  /\ pre.state[call.plug] = initialized
  => /\ hooks = pre.hooks
     /\ initialized_plugins = pre.initialized_plugins
     /\ running_plugins = pre.running_plugins
     /\ state = pre.state
     /\ state[call.plug] = initialized
     /\ ~aborted

\* initialize was called on an initialized plugin with a dependency, and
\* has returned.
C8_Witness ==
  /\ Returned
  /\ call.op = "initialize"
  /\ pre.state[call.plug] = initialized
  /\ Deps(call.plug) # {}
  /\ call.plug \in Range(hooks["plugin_initialize"])

\* C9: for any sequence of get_method / get_channel calls, each registry
\* constructs at most one object per declaration: a call with a declaration
\* asked for before returns the object returned then, and calls with two
\* distinct declarations return two distinct objects, also when the two
\* declare the same payload type.
C9_OneObjectPerDeclaration ==
  /\ \A r \in {"methods", "channels"} : \A d \in Decl : made[r][d] <= 1
  /\ call.op \in {"get_method", "get_channel"} =>
       LET reg == IF call.op = "get_method" THEN methods ELSE channels
           was == IF call.op = "get_method" THEN pre.methods ELSE pre.channels
           key == type_index(call.decl)
       IN /\ ret = reg[key]
          /\ ret.key = call.decl
          /\ key \in DOMAIN was => ret = was[key] /\ reg = was
  /\ \A reg \in {methods, channels} :
       \A d, e \in Decl :
         /\ d # e
         /\ type_index(d) \in DOMAIN reg
         /\ type_index(e) \in DOMAIN reg
         => reg[type_index(d)] # reg[type_index(e)]

\* get_method was called a second time with declaration 2, after
\* declaration 1, of the same payload type, had got its method.
C9_Witness ==
  /\ call.op = "get_method"
  /\ call.decl = 2
  /\ payload(1) = payload(2)
  /\ {type_index(1), type_index(2)} \subseteq DOMAIN pre.methods
  /\ ret = Ref(2, 1)
  /\ methods[type_index(1)] = Ref(1, 1)

\* C10: find_plugin never constructs: for a plugin that was never
\* registered it returns the null pointer, and in every case it leaves the
\* registered plugins, the state of every plugin, initialized_plugins and
\* running_plugins as they were.
C10_FindPluginChangesNothing ==
  call.op = "find_plugin" =>
    /\ call.plug \notin DOMAIN pre.plugins => ret = null
    /\ call.plug \in DOMAIN pre.plugins => ret = Ref(call.plug, pre.plugins[call.plug])
    /\ constructed = pre.constructed
    /\ plugins = pre.plugins
    /\ state = pre.state
    /\ initialized_plugins = pre.initialized_plugins
    /\ running_plugins = pre.running_plugins

\* find_plugin was asked for a plugin that was never registered, while
\* another plugin was registered and running.
C10_Witness ==
  /\ Returned
  /\ call.op = "find_plugin"
  /\ constructed[call.plug] = 0
  /\ ret = null
  /\ running_plugins # <<>>

\* C11, as claimed: startup called on a plugin whose state is registered
\* ends in the assertion failure and never returns to its caller; the
\* plugin stays registered, no startup hook runs and nothing is appended to
\* running_plugins.
C11_AsClaimed ==
  call.op = "startup" /\ pre.state[call.plug] = registered =>
    /\ state = pre.state
    /\ hooks = pre.hooks
    /\ running_plugins = pre.running_plugins
    /\ ~Returned

\* A lifecycle call made on a plugin that is past the state the call would
\* enter: initialize on a started or stopped plugin, startup on a stopped one.
PastTarget ==
  \/ call.op = "initialize" /\ pre.state[call.plug] \in {started, stopped}
  \/ call.op = "startup" /\ pre.state[call.plug] = stopped

\* What a lifecycle call can change is as the call found it.
NothingChanged ==
  /\ plugins = pre.plugins
  /\ constructed = pre.constructed
  /\ state = pre.state
  /\ hooks = pre.hooks
  /\ initialized_plugins = pre.initialized_plugins
  /\ running_plugins = pre.running_plugins

\* C12, as claimed: a lifecycle call on a plugin past the state the call
\* would enter changes nothing and does not end in a failure.
C12_AsClaimed == PastTarget => NothingChanged /\ ~aborted

\* C12, amended: such a call changes nothing, but it is an error wherever
\* assertions are enabled: it ends in the assertion failure in a build with
\* assertions, and returns to its caller only in a build with NDEBUG.
C12_PastTargetChangesNothing ==
  PastTarget =>
    /\ NothingChanged
    /\ aborted => ~NDEBUG
    /\ Returned => NDEBUG

\* initialize was called on a started plugin and ended in the assertion
\* failure, nothing having changed.
C12_Witness ==
  /\ call.op = "initialize"
  /\ pre.state[call.plug] = started
  /\ aborted
  /\ state[call.plug] = started

\* The running or last call is a register, initialize or startup of a
\* plugin that depends on itself through the declarations, made in the
\* state from which the call traverses the plugin's dependencies.
CyclicTraversal ==
  /\ call.op \in {"register_plugin", "initialize", "startup"}
  /\ DependsOn(call.plug, call.plug)
  /\ \/ call.op = "register_plugin" /\ call.plug \notin DOMAIN pre.plugins
     \/ call.op = "initialize" /\ pre.state[call.plug] = registered
     \/ call.op = "startup" /\ pre.state[call.plug] = initialized

\* The deepest nesting of calls without a plugin entered twice: the
\* orchestrator's loop and one call per plugin.
MaxDepth == NumPlugins + 1

\* C13, as claimed: register, initialize or startup of a plugin on a
\* dependency cycle recurses without bound and never terminates: the call
\* never returns to its caller.
C13_AsClaimed == CyclicTraversal => ~Returned

\* C13, amended: a dependency cycle is not detected, and register,
\* initialize and startup of a plugin on the cycle terminate all the same:
\* the nesting of calls stays within MaxDepth and the call returns.
C13_CyclicTraversalTerminates ==
  /\ [](Len(stack) <= MaxDepth)
  /\ (CyclicTraversal /\ Running) ~> (CyclicTraversal /\ Returned)

\* startup of plugin 1, which requires 2, which requires 1, has returned
\* with both plugins started, 2 before 1.
C13_Witness ==
  /\ CyclicTraversal /\ Returned
  /\ call.op = "startup"
  /\ call.plug = 1
  /\ plugin_requires[1] = <<2>> /\ plugin_requires[2] = <<1>>
  /\ running_plugins = <<2, 1>>

\* C14, as claimed: an initialize that fired keeps the plugin registered
\* while its dependencies are initialized and while its own hook runs, and
\* sets the state to initialized only after the hook: in every frame of
\* initialize that has not yet run plugin_initialize, the plugin's state is
\* registered and the plugin is not in initialized_plugins.
C14_AsClaimed ==
  \A k \in 1 .. Len(stack) :
    /\ stack[k].op = "initialize"
    /\ stack[k].pc \in {"requires", "visitor", "plugin_initialize"}
    => /\ state[stack[k].plug] = registered
       /\ stack[k].plug \notin Range(initialized_plugins)

\* No plugin depends on itself through the declarations.
Acyclic == \A p \in Plugin : ~DependsOn(p, p)

\* C15: startup_all() calls startup on every plugin of initialized_plugins
\* in the recorded order: for an acyclic dependency graph, once it has
\* returned, every plugin of initialized_plugins is started, and
\* running_plugins (as the sequence of startup hooks that ran) is equal, as
\* a sequence, to initialized_plugins.
C15_StartupAllFollowsInitializedOrder ==
  MainAt("started") /\ Acyclic =>
    /\ \A p \in Range(initialized_plugins) : state[p] = started
    /\ running_plugins = initialized_plugins
    /\ hooks["plugin_startup"] = initialized_plugins

\* startup_all() has returned in a program without a cycle in which three
\* plugins had been initialized, a plugin after its two dependencies.
C15_Witness ==
  /\ MainAt("started")
  /\ Acyclic
  /\ initialized_plugins = <<3, 2, 1>>
  /\ hooks["plugin_startup"] = <<3, 2, 1>>
  /\ \A p \in Plugin : state[p] = started

\* C16: shutdown called on a started plugin P does not shut down P's
\* dependencies: P's state becomes stopped and then P's own shutdown hook
\* runs, in a single frame, while the state of every other plugin, the
\* registry and both order logs stay as the call found them.
C16_ShutdownStopsOnlyThePlugin ==
  call.op = "shutdown" /\ pre.state[call.plug] = started =>
    LET P == call.plug
        hook_ran == hooks["plugin_shutdown"] # pre.hooks["plugin_shutdown"]
    IN /\ \A q \in DOMAIN pre.state \ {P} : state[q] = pre.state[q]
       /\ DOMAIN state = DOMAIN pre.state
       /\ plugins = pre.plugins
       /\ constructed = pre.constructed
       /\ initialized_plugins = pre.initialized_plugins
       /\ running_plugins = pre.running_plugins
       /\ hooks["plugin_initialize"] = pre.hooks["plugin_initialize"]
       /\ hooks["plugin_startup"] = pre.hooks["plugin_startup"]
       /\ hook_ran =>
            /\ hooks["plugin_shutdown"] = Append(pre.hooks["plugin_shutdown"], P)
            /\ state[P] = stopped
       /\ Returned => hook_ran
       /\ Len(stack) <= 1
       /\ ~aborted

\* shutdown was called on a started plugin and has returned, and a
\* dependency of the plugin is still started.
C16_Witness ==
  /\ Returned
  /\ call.op = "shutdown"
  /\ pre.state[call.plug] = started
  /\ state[call.plug] = stopped
  /\ \E b \in Deps(call.plug) : state[b] = started

\* No element stands twice in the sequence v.
NoDuplicates(v) == \A i, j \in 1 .. Len(v) : i # j => v[i] # v[j]

\* C17: shutdown fires only from started: called on a plugin that is
\* registered, initialized or stopped it runs no hook, changes no state and
\* ends in no failure; hence no plugin's shutdown hook runs more than once,
\* and none runs for a plugin that was not started.
C17_ShutdownFiresOnlyFromStarted ==
  /\ call.op = "shutdown" /\ pre.state[call.plug] # started =>
       NothingChanged /\ ~aborted
  /\ NoDuplicates(hooks["plugin_shutdown"])
  /\ \A p \in Range(hooks["plugin_shutdown"]) :
       /\ p \in Range(hooks["plugin_startup"])
       /\ p \in Range(running_plugins)
       /\ state[p] = stopped

\* shutdown was called a second time on a plugin, which the first call had
\* stopped, and has returned, the hook having run once; another plugin is
\* initialized and not started.
C17_Witness ==
  /\ Returned
  /\ call.op = "shutdown"
  /\ pre.state[call.plug] = stopped
  /\ hooks["plugin_shutdown"] = <<call.plug>>
  /\ \E q \in DOMAIN state : state[q] = initialized

\* The plugin A and every plugin reached from it through the declarations.
Reachable(A) == Closure({A}, NumPlugins)

\* C18: register constructs the dependencies transitively.  Once
\* register(A) has returned, A and every plugin reachable from A through
\* declared dependencies are in the registry, each constructed exactly
\* once; every plugin the call has constructed is in state registered; and
\* a new plugin is in the registry before its dependencies are registered:
\* wherever register_plugin is past its lookup, its plugin is registered.
C18_RegisterIsTransitive ==
  /\ call.op = "register_plugin" =>
       /\ \A q \in DOMAIN plugins \ DOMAIN pre.plugins :
            state[q] = registered /\ q \in Reachable(call.plug)
       /\ Returned =>
            /\ Reachable(call.plug) \subseteq DOMAIN plugins
            /\ ret = Ref(call.plug, plugins[call.plug])
  /\ \A q \in Plugin : constructed[q] = IF q \in DOMAIN plugins THEN 1 ELSE 0
  /\ \A k \in 1 .. Len(stack) :
       stack[k].op = "register_plugin" /\ stack[k].pc # "find" =>
         stack[k].plug \in DOMAIN plugins

\* register(1) has returned where 1 requires 2 and 3 and 2 requires 3; one
\* of the three had been registered and initialized before, the call
\* constructed the two others.
C18_Witness ==
  /\ Returned
  /\ call.op = "register_plugin"
  /\ call.plug = 1
  /\ plugin_requires[1] = <<2, 3>>
  /\ plugin_requires[2] = <<3>>
  /\ DOMAIN pre.plugins = {3}
  /\ DOMAIN plugins = {1, 2, 3}
  /\ state[3] = initialized

\* The sequence v begins with the sequence u.
IsPrefix(u, v) == Len(u) <= Len(v) /\ SubSeq(v, 1, Len(u)) = u

\* C19: under any sequence of register, initialize, startup and shutdown
\* calls, initialized_plugins and running_plugins are append-only and
\* duplicate-free: every step leaves each of them as it was or with new
\* entries after the old ones, and no plugin ever stands twice in either.
C19_OrderLogsAppendOnly ==
  /\ [](NoDuplicates(initialized_plugins) /\ NoDuplicates(running_plugins))
  /\ [][/\ IsPrefix(initialized_plugins, initialized_plugins')
        /\ IsPrefix(running_plugins, running_plugins')]_vars

\* Three plugins were initialized, two of them started, and one of those
\* was shut down: it stands in both logs still.
C19_Witness ==
  /\ Len(initialized_plugins) = 3
  /\ Len(running_plugins) = 2
  /\ \E p \in Range(running_plugins) : state[p] = stopped
  /\ \E p \in Range(running_plugins) : state[p] = started

\* C20: in every reachable state, every plugin of initialized_plugins is in
\* the registry and in state initialized or later, and every plugin of
\* running_plugins is in state started or stopped and stands in
\* initialized_plugins too.
C20_OrderLogsAgreeWithStates ==
  /\ \A p \in Range(initialized_plugins) :
       /\ p \in DOMAIN plugins
       /\ AtLeast(state[p], initialized)
  /\ \A p \in Range(running_plugins) :
       /\ state[p] \in {started, stopped}
       /\ p \in Range(initialized_plugins)

\* Inside initialize of plugin 1: its dependency 2 has been appended after
\* plugin 3, which was started and shut down before; 1 itself is not yet
\* in initialized_plugins.
C20_Witness ==
  /\ Running
  /\ initialized_plugins = <<3, 2>>
  /\ running_plugins = <<3>>
  /\ state[3] = stopped
  /\ 1 \in DOMAIN state
  /\ state[1] = initialized
  /\ plugin_requires[1] = <<2>>

====
